---- MODULE Spec2Model ----
(***************************************************************************)
(* A model of the profile-builder repository: the Model Client             *)
(* (ollama_integration.py), the Content Generator                          *)
(* (deepseek_integration.py), the Portfolio Extractor and its cache        *)
(* (portfolio_extractor.py), the Update Logger (profile_logger.py), the    *)
(* Profile Builder (profile_builder.py), the LinkedIn Profile Builder      *)
(* (linkedin_profile_builder.py) and the endpoints /extract,               *)
(* /build_profile and /build_linkedin_profile (app.py).                    *)
(*                                                                         *)
(* Python strings are sequences of one-character strings, so that strip,   *)
(* replace, split, slicing and the digit search act on characters.         *)
(***************************************************************************)
EXTENDS Integers, Sequences, FiniteSets, TLC

VARIABLES
    host,      \* how the model host answers POST /api/generate
    call,      \* the generator operation being run and its arguments
    pc,        \* "called" before the operation has run, "returned" after
    result,    \* the operation's return value
    sent,      \* number of POST /api/generate requests the operation sent
    now,       \* the clock, in minutes
    files,     \* the cache files on disk: existence, modification time, text
    written,   \* per cache file, the PortfolioData last written into it
    lastCall,  \* the last extract() call: its extractor, what it did and returned
    modelHost, \* the model host: its process, its API, whether it has the model
    apiLog,    \* the requests the last /build_profile sent to the model host
    httpReq,   \* the body of the last /build_profile request
    httpResp,  \* the answer to it
    logFiles,  \* per platform, the log file <platform>_updates.json
    logCall,   \* the last call of the Update Logger and what it returned
    writers    \* the log_profile_update calls running side by side, each
               \* between its read of the log file and its write

genVars == <<host, call, pc, result, sent>>

cacheVars == <<now, files, written, lastCall>>

buildVars == <<modelHost, apiLog, httpReq, httpResp>>

logVars == <<logFiles, logCall, writers>>

vars == <<genVars, cacheVars, buildVars, logVars>>

---------------------------------------------------------------------------
(* Bounds of the model. *)

\* longest first line the model host answers generate_title with
MaxTitleLen == 224

---------------------------------------------------------------------------
(* The cache files of the Portfolio Extractor, and the state before any
   extract() call. *)

\* Optional values: <<>> is None, <<x>> is x.
None == <<>>

Some(x) == <<x>>

\* URLs as sequences of their parts: scheme, host, separators, path segments
Urls ==
    { <<"https://", "a.com", "/">>,
      <<"http://", "a.com", "/">>,
      <<"https://", "b.org", "/", "cv">> }

\* url.replace('https://', '').replace('http://', '').replace('/', '_')
NormalizeUrl(url) ==
    LET noHttps == SelectSeq(url, LAMBDA t : t # "https://")
        noHttp == SelectSeq(noHttps, LAMBDA t : t # "http://")
    IN  [i \in 1..Len(noHttp) |-> IF noHttp[i] = "/" THEN "_" ELSE noHttp[i]]

\* self.cache_file
CacheFile(url) == <<"portfolio_cache_">> \o NormalizeUrl(url) \o <<".json">>

CacheFiles == {CacheFile(u) : u \in Urls}

\* A cache file: whether it exists, its modification time, its text, and the
\* URL of the extractor that wrote it.
NoFile == [exists |-> FALSE, mtime |-> 0, text |-> <<>>, origin |-> <<>>]

\* What a rendered page holds: the text the name selectors find ('' when
\* none matches), the name in its JSON-LD block, the experience items the
\* selectors find, whether the scroll and the second read of the page
\* succeed, and the workExperience of its JSON-LD block.  NoPage: no page
\* was rendered.
NoPage ==
    [ok |-> FALSE, name_sel |-> "", name_ld |-> "", jobs_sel |-> <<>>,
     scroll_ok |-> FALSE, jobs_ld |-> <<>>]

NoCall ==
    [called |-> FALSE, at |-> 0, url |-> <<>>, use_cache |-> FALSE, duration |-> 0,
     age |-> -1, source |-> "none", data |-> None, fetched |-> FALSE,
     saved |-> FALSE, before |-> NoFile, page |-> NoPage]

CacheIdle ==
    /\ now = 0
    /\ files = [f \in CacheFiles |-> NoFile]
    /\ written = [f \in CacheFiles |-> None]
    /\ lastCall = NoCall

---------------------------------------------------------------------------
(* The model host and the /build_profile endpoint before any request. *)

\* a host that runs, answers and has the model
HostReady == [process |-> "running", api |-> "ok", has_model |-> TRUE, pull_ok |-> TRUE]

\* The body of a request: the endpoint it went to; platform, portfolio_data
\* (present or not, with skills or not) and credentials (a dict or absent,
\* its username and password) of the build endpoints; portfolio_url,
\* use_cache and force_refresh of /extract.
NoRequest ==
    [endpoint |-> "none", platform |-> "", has_data |-> FALSE, has_skills |-> FALSE,
     has_credentials |-> FALSE, username |-> "", password |-> "",
     url |-> <<>>, use_cache |-> FALSE, force_refresh |-> FALSE]

\* A change record (a dict): each key is absent (None) or carries a value;
\* "extra" stands for any key besides the six the handlers use.
NoChanges ==
    [timestamp |-> None, platform |-> None, profile_url |-> None, headline |-> None,
     about |-> None, skills_added |-> None, extra |-> None]

\* The answer: the HTTP status code, the top-level 'error' and 'message',
\* the 'status' of the result and the exception message kept in the result
\* (its 'error' or 'message' key), whether browser automation of the
\* platform was started and whether it raised, the profile fields
\* update_linkedin_profile tried to write, those the site took, and the
\* 'changes' of the result.
NoResponse ==
    [code |-> 0, error |-> "", message |-> "", status |-> "", detail |-> "",
     browser |-> FALSE, browser_raised |-> FALSE, attempted |-> <<>>,
     remote |-> {}, changes |-> NoChanges]

BuildIdle ==
    /\ modelHost = HostReady
    /\ apiLog = <<>>
    /\ httpReq = NoRequest
    /\ httpResp = NoResponse

---------------------------------------------------------------------------
(* The log files of the Update Logger, and the state before any call. *)

\* the platforms whose log files are looked at: <platform>_updates.json
LogPlatforms == {"linkedin", "upwork"}

\* A log file: absent, or present with text that is a JSON array of entries
\* ("array"), valid JSON that is no array, such as {} ("object"), or no JSON
\* at all ("garbage").
NoLogFile == [exists |-> FALSE, kind |-> "none", entries |-> <<>>]

NoLogCall ==
    [op |-> "none", platform |-> None, profile_url |-> "", limit |-> 0, at |-> 0,
     changes |-> NoChanges, before |-> NoLogFile, write_ok |-> FALSE, ok |-> FALSE,
     entries |-> <<>>]

\* the threads that call log_profile_update side by side
LogWriters == {"w1", "w2"}

\* a thread that has not called log_profile_update
NoWriter ==
    [pc |-> "idle", platform |-> "", entry |-> NoChanges, saw |-> <<>>,
     raised |-> FALSE, ok |-> FALSE, beside |-> {}]

NoWriters == [w \in LogWriters |-> NoWriter]

LogIdle ==
    /\ logFiles = [p \in LogPlatforms |-> NoLogFile]
    /\ logCall = NoLogCall
    /\ writers = NoWriters

---------------------------------------------------------------------------
(* Python string operations, on sequences of characters. *)

Whitespace == {" ", "\n", "\t"}

Digits == <<"0", "1", "2", "3", "4", "5", "6", "7", "8", "9">>

DigitChars == {Digits[i] : i \in 1..10}

MinOf(S) == CHOOSE x \in S : \A y \in S : x <= y

\* s.lstrip(cs): drop the longest prefix made of characters of cs
LStripChars(s, cs) ==
    LET n == Cardinality({i \in 1..Len(s) : \A j \in 1..i : s[j] \in cs})
    IN  SubSeq(s, n + 1, Len(s))

\* s.rstrip(cs): drop the longest suffix made of characters of cs
RStripChars(s, cs) ==
    LET n == Cardinality({i \in 1..Len(s) : \A j \in i..Len(s) : s[j] \in cs})
    IN  SubSeq(s, 1, Len(s) - n)

\* s.strip(cs)
StripChars(s, cs) == RStripChars(LStripChars(s, cs), cs)

\* s.strip()
Strip(s) == StripChars(s, Whitespace)

\* s.replace(c, '') for a single character c
RemoveChar(s, c) == SelectSeq(s, LAMBDA x : x # c)

\* s.split(sep)[0]
FirstField(s, sep) ==
    LET at == {i \in 1..Len(s) : s[i] = sep}
    IN  IF at = {} THEN s ELSE SubSeq(s, 1, MinOf(at) - 1)

\* s.split(sep) for a single character sep
RECURSIVE Split(_, _)
Split(s, sep) ==
    LET at == {i \in 1..Len(s) : s[i] = sep}
    IN  IF at = {} THEN <<s>>
        ELSE <<SubSeq(s, 1, MinOf(at) - 1)>>
                 \o Split(SubSeq(s, MinOf(at) + 1, Len(s)), sep)

\* sub in s
Contains(s, sub) ==
    \E i \in 0..(Len(s) - Len(sub)) : SubSeq(s, i + 1, i + Len(sub)) = sub

\* the elements of a sequence
Range(s) == {s[i] : i \in 1..Len(s)}

\* str.lower() on the platform tags the callers pass
Lower(p) ==
    CASE p = "Upwork" -> "upwork"
      [] p = "LinkedIn" -> "linkedin"
      [] OTHER -> p

---------------------------------------------------------------------------
(* Model Client: OllamaClient.generate. *)

\* the fixed text generate returns when the request fails
FallbackText ==
  << "I", " ", "c", "o", "u", "l", "d", "n", "'", "t", " ", "g",
     "e", "n", "e", "r", "a", "t", "e", " ", "s", "p", "e", "c",
     "i", "f", "i", "c", " ", "c", "o", "n", "t", "e", "n", "t",
     " ", "a", "t", " ", "t", "h", "i", "s", " ", "t", "i", "m",
     "e", ".", " ", "P", "l", "e", "a", "s", "e", " ", "c", "h",
     "e", "c", "k", " ", "O", "l", "l", "a", "m", "a", " ", "i",
     "s", " ", "p", "r", "o", "p", "e", "r", "l", "y", " ", "i",
     "n", "s", "t", "a", "l", "l", "e", "d", " ", "a", "n", "d",
     " ", "r", "u", "n", "n", "i", "n", "g", "." >>

\* The host's answers: a transport failure ("down"), a non-200 status
\* ("status"), a 200 whose JSON has no "response" key ("nokey"), or a 200
\* carrying the text ("ok").
HostFailures == {[kind |-> "down", text |-> <<>>], [kind |-> "status", text |-> <<>>]}

HostNoKey == [kind |-> "nokey", text |-> <<>>]

HostOk(text) == [kind |-> "ok", text |-> text]

\* a 200 whose body is no JSON: response.json() raises
HostBadJson == [kind |-> "badjson", text |-> <<>>]

\* what a call gives its caller: the text returned or an exception raised,
\* and the number of requests sent
Outcome(text, raised, requests) ==
    [text |-> text, raised |-> raised, requests |-> requests]

\* the try block of generate: the one requests.post, the status check,
\* response.json() and result.get("response", "")
GenerateTry(h) ==
    CASE h.kind = "ok" -> Outcome(h.text, FALSE, 1)
      [] h.kind = "nokey" -> Outcome(<<>>, FALSE, 1)
      [] OTHER -> Outcome(<<>>, TRUE, 1)

\* generate with an except clause that posts the request a second time
GenerateOutcomeRetry(h) ==
    IF GenerateTry(h).raised THEN Outcome(FallbackText, FALSE, 2) ELSE GenerateTry(h)

\* generate(prompt): the try block, and the except clause that returns the
\* fixed text for whatever was raised
GenerateOutcome(h) ==
    IF GenerateTry(h).raised THEN Outcome(FallbackText, FALSE, 1) ELSE GenerateTry(h)

\* generate(prompt): the text the caller gets for the host's answer h
OllamaGenerate(h) == GenerateOutcome(h).text

\* a call of generate by itself
Generate ==
    /\ pc = "called"
    /\ call.op = "generate"
    /\ result' = GenerateOutcome(host).text
    /\ sent' = sent + GenerateOutcome(host).requests
    /\ pc' = IF GenerateOutcome(host).raised THEN "raised" ELSE "returned"
    /\ UNCHANGED <<host, call, cacheVars, buildVars, logVars>>

---------------------------------------------------------------------------
(* Content Generator: generate_title. *)

UpworkTitleMax == 70
UpworkTitleCut == 67
LinkedinTitleMax == 220
LinkedinTitleCut == 217
DefaultTitleMax == 100
DefaultTitleCut == 97

Ellipsis == <<".", ".", ".">>

\* response.strip().replace('"', '').split('\n')[0]
CleanTitle(response) == FirstField(RemoveChar(Strip(response), "\""), "\n")

\* a slip in the slice: the ellipsis is appended after a cut at the ceiling
LimitTitleCutAtMax(platform, title) ==
    IF Lower(platform) = "upwork" /\ Len(title) > UpworkTitleMax
    THEN SubSeq(title, 1, UpworkTitleMax) \o Ellipsis
    ELSE IF Lower(platform) = "linkedin" /\ Len(title) > LinkedinTitleMax
    THEN SubSeq(title, 1, LinkedinTitleMax) \o Ellipsis
    ELSE IF Len(title) > DefaultTitleMax
    THEN SubSeq(title, 1, DefaultTitleMax) \o Ellipsis
    ELSE title

\* the if / elif / elif that enforces the character limits
LimitTitle(platform, title) ==
    IF Lower(platform) = "upwork" /\ Len(title) > UpworkTitleMax
    THEN SubSeq(title, 1, UpworkTitleCut) \o Ellipsis
    ELSE IF Lower(platform) = "linkedin" /\ Len(title) > LinkedinTitleMax
    THEN SubSeq(title, 1, LinkedinTitleCut) \o Ellipsis
    ELSE IF Len(title) > DefaultTitleMax
    THEN SubSeq(title, 1, DefaultTitleCut) \o Ellipsis
    ELSE title

\* generate_title(portfolio_data, platform): one request, then the clean-up
GenerateTitle ==
    /\ pc = "called"
    /\ call.op = "generate_title"
    /\ result' = LimitTitle(call.platform, CleanTitle(OllamaGenerate(host)))
    /\ sent' = sent + 1
    /\ pc' = "returned"
    /\ UNCHANGED <<host, call, cacheVars, buildVars, logVars>>

\* ProfileBuilder._generate_headline_for_linkedin: its own clean-up and limit
LimitHeadline(headline) ==
    IF Len(headline) > LinkedinTitleMax
    THEN SubSeq(headline, 1, LinkedinTitleCut) \o Ellipsis
    ELSE headline

GenerateHeadline ==
    /\ pc = "called"
    /\ call.op = "headline_for_linkedin"
    /\ result' = LimitHeadline(CleanTitle(OllamaGenerate(host)))
    /\ sent' = sent + 1
    /\ pc' = "returned"
    /\ UNCHANGED <<host, call, cacheVars, buildVars, logVars>>

Platforms == {"upwork", "linkedin", "generic", "LinkedIn"}

\* one call of a generator operation: the platform tag and what the
\* operation reads of portfolio_data
Call(op, platform, technical, soft, max_skills, experience) ==
    [op |-> op, platform |-> platform, technical |-> technical, soft |-> soft,
     max_skills |-> max_skills, experience |-> experience]

\* A first line of n letters, alternating so that a cut is visible.
Letters(n) == [i \in 1..n |-> IF i % 2 = 1 THEN "a" ELSE "b"]

\* The answers the host gives to a title prompt: optional leading blank,
\* optional surrounding quotes, a first line of n letters, optional further
\* text after a line break.
TitleResponses ==
    { (IF lead THEN <<" ">> ELSE <<>>)
        \o (IF quoted THEN <<"\"">> \o Letters(n) \o <<"\"">> ELSE Letters(n))
        \o tail :
        lead \in BOOLEAN, quoted \in BOOLEAN, n \in 0..MaxTitleLen,
        tail \in {<<>>, <<"\n", "x", "y">>, <<" ", "\n">>} }

TitleHosts == HostFailures \cup {HostNoKey} \cup {HostOk(t) : t \in TitleResponses}

TitleCalls ==
    {Call("generate_title", p, <<>>, <<>>, 0, <<>>) : p \in Platforms}
    \cup {Call("headline_for_linkedin", "linkedin", <<>>, <<>>, 0, <<>>)}

InitTitle ==
    /\ host \in TitleHosts
    /\ call \in TitleCalls
    /\ pc = "called"
    /\ result = <<>>
    /\ sent = 0
    /\ CacheIdle
    /\ BuildIdle
    /\ LogIdle

NextTitle == GenerateTitle \/ GenerateHeadline

SpecTitle == InitTitle /\ [][NextTitle]_vars

---------------------------------------------------------------------------
(* Claims about generate_title. *)

\* the ceiling the specification gives for a platform tag
Ceiling(platform) ==
    CASE Lower(platform) = "upwork" -> 70
      [] Lower(platform) = "linkedin" -> 220
      [] OTHER -> 100

TitleReturned == pc = "returned" /\ call.op = "generate_title"

\* C1: for every platform tag and every model response, the title that
\* generate_title returns is no longer than the platform's ceiling
\* (70 for upwork, 220 for linkedin, 100 for any other platform).
C1_TitleWithinCeiling ==
    TitleReturned => Len(result) <= Ceiling(call.platform)

\* C1 witness: a response whose first line is longer than the ceiling was
\* answered for upwork and came back cut to exactly 70 characters.
C1_Witness ==
    /\ TitleReturned
    /\ Lower(call.platform) = "upwork"
    /\ host.kind = "ok"
    /\ Len(CleanTitle(host.text)) > 70
    /\ Len(result) = 70

\* C2: whenever generate_title shortens the cleaned first line, the title
\* ends with "..." and its length is exactly the platform's ceiling.
C2_ShortenedHitsCeiling ==
    (TitleReturned /\ result # CleanTitle(OllamaGenerate(host)))
        => /\ Len(result) = Ceiling(call.platform)
           /\ SubSeq(result, Len(result) - 2, Len(result)) = Ellipsis

---------------------------------------------------------------------------
(* Content Generator: select_skills. *)

\* longest answer, in lines, the model host gives to a skills prompt
MaxLines == 3

\* largest max_skills a caller passes
MaxSkillsArg == 3

\* ["Python", "Data Engineering", "SQL", "ETL", "Cloud Services"]
DefaultSkills ==
    << <<"P", "y", "t", "h", "o", "n">>,
       <<"D", "a", "t", "a", " ", "E", "n", "g", "i", "n", "e", "e", "r", "i", "n", "g">>,
       <<"S", "Q", "L">>,
       <<"E", "T", "L">>,
       <<"C", "l", "o", "u", "d", " ", "S", "e", "r", "v", "i", "c", "e", "s">> >>

\* the characters of lstrip('*-0123456789. \t')
BulletChars == {"*", "-", ".", " ", "\t"} \cup DigitChars

\* the characters of strip('"\'')
QuoteChars == {"\"", "'"}

\* line.strip(), then lstrip of bullets and numbers, then strip of quotes
CleanSkill(line) == StripChars(LStripChars(Strip(line), BulletChars), QuoteChars)

\* the loop over the lines: a skill is appended when it is non-empty, not yet
\* in the list, and the list is shorter than max_skills
RECURSIVE CollectSkills(_, _, _)
CollectSkills(lines, skills, max_skills) ==
    IF lines = <<>> THEN skills
    ELSE LET skill == CleanSkill(Head(lines))
         IN  CollectSkills(Tail(lines),
                           IF /\ skill # <<>>
                              /\ skill \notin Range(skills)
                              /\ Len(skills) < max_skills
                           THEN Append(skills, skill) ELSE skills,
                           max_skills)

ParseSkills(response, max_skills) ==
    CollectSkills(Split(Strip(response), "\n"), <<>>, max_skills)

\* select_skills without its early return for an empty skill set
SelectSkillsNoEarlyReturn(c, h) ==
    [skills |-> ParseSkills(OllamaGenerate(h), c.max_skills), requests |-> 1]

\* select_skills(portfolio_data, platform, max_skills): the list returned and
\* the number of requests sent, for the call c and the host's answer h
SelectSkillsOutcome(c, h) ==
    IF c.technical \o c.soft = <<>>
    THEN [skills |-> DefaultSkills, requests |-> 0]
    ELSE [skills |-> ParseSkills(OllamaGenerate(h), c.max_skills), requests |-> 1]

SelectSkills ==
    /\ pc = "called"
    /\ call.op = "select_skills"
    /\ result' = SelectSkillsOutcome(call, host).skills
    /\ sent' = sent + SelectSkillsOutcome(call, host).requests
    /\ pc' = "returned"
    /\ UNCHANGED <<host, call, cacheVars, buildVars, logVars>>

\* The lines the host answers a skills prompt with: an empty line, a
\* bulleted and a numbered spelling of the same skill, a quoted skill, a line
\* of bullet and digit characters only, and a skill with blanks around it.
SkillLines ==
    { <<>>,
      <<"-", " ", "a">>,
      <<"1", ".", " ", "a">>,
      <<"\"", "b", "\"">>,
      <<"*", " ", "2">>,
      <<" ", "A", " ">> }

RECURSIVE SkillResponses(_)
SkillResponses(n) ==
    IF n = 0 THEN {<<>>}
    ELSE IF n = 1 THEN SkillLines
    ELSE {r \o <<"\n">> \o l : r \in SkillResponses(n - 1), l \in SkillLines}

SkillHosts ==
    HostFailures \cup {HostNoKey}
        \cup {HostOk(t) : t \in UNION {SkillResponses(n) : n \in 0..MaxLines}}

\* technical and soft skills of portfolio_data
SkillSets ==
    { <<<<>>, <<>>>>,
      <<<<"Python">>, <<>>>>,
      <<<<>>, <<"Teamwork">>>>,
      <<<<"Python", "SQL">>, <<"Teamwork">>>> }

SkillCalls ==
    {Call("select_skills", p, ss[1], ss[2], m, <<>>) :
        p \in {"upwork", "linkedin", "generic"}, ss \in SkillSets,
        m \in (-1)..MaxSkillsArg}

InitSkills ==
    /\ host \in SkillHosts
    /\ call \in SkillCalls
    /\ pc = "called"
    /\ result = <<>>
    /\ sent = 0
    /\ CacheIdle
    /\ BuildIdle
    /\ LogIdle

NextSkills == SelectSkills

SpecSkills == InitSkills /\ [][NextSkills]_vars

---------------------------------------------------------------------------
(* Claims about select_skills. *)

SkillsReturned == pc = "returned" /\ call.op = "select_skills"

NoDuplicates(s) == \A i, j \in 1..Len(s) : s[i] = s[j] => i = j

\* C3: for every platform, every max_skills and every model response, the
\* list select_skills returns has at most max_skills entries and no two
\* equal entries.  Stated for max_skills >= 0 only, where a list of at most
\* max_skills entries exists.
C3_AtMostMaxSkillsNoDuplicates ==
    (SkillsReturned /\ call.max_skills >= 0)
        => Len(result) <= call.max_skills /\ NoDuplicates(result)

\* C4: select_skills never returns an empty list when the input skill set
\* (technical plus soft skills) is non-empty, whatever the model returns.
\* Stated for max_skills >= 1 only, where an empty list is not forced by the
\* limit itself.
C4_NonEmptyForNonEmptyInput ==
    (SkillsReturned /\ call.technical \o call.soft # <<>> /\ call.max_skills >= 1)
        => result # <<>>

---------------------------------------------------------------------------
(* Content Generator: suggest_hourly_rate. *)

\* most experience entries of portfolio_data
MaxExp == 4

\* largest number the model host answers a rate prompt with
MaxRate == 152

RateFloor == 15
RateCeil == 150
BaseRateJunior == 25
BaseRateMid == 40
BaseRateSenior == 55
BaseRateExpert == 70
YearsJunior == 3
YearsMid == 5
YearsSenior == 8
YearsCurrent == 2
YearsPast == 1

Present == <<"P", "r", "e", "s", "e", "n", "t">>

\* the loop that adds up total_years over the duration strings
RECURSIVE TotalYears(_)
TotalYears(experiences) ==
    IF experiences = <<>> THEN 0
    ELSE (IF Contains(Head(experiences), Present) THEN YearsCurrent ELSE YearsPast)
            + TotalYears(Tail(experiences))

\* a slip in the step function: <= where the code has <
BaseRateInclusive(total_years) ==
    IF total_years <= YearsJunior THEN BaseRateJunior
    ELSE IF total_years <= YearsMid THEN BaseRateMid
    ELSE IF total_years <= YearsSenior THEN BaseRateSenior
    ELSE BaseRateExpert

\* the step function from total_years to base_rate
BaseRate(total_years) ==
    IF total_years < YearsJunior THEN BaseRateJunior
    ELSE IF total_years < YearsMid THEN BaseRateMid
    ELSE IF total_years < YearsSenior THEN BaseRateSenior
    ELSE BaseRateExpert

DigitValue(c) == CHOOSE d \in 0..9 : Digits[d + 1] = c

\* int(text) for a string of decimal digits
RECURSIVE ParseInt(_)
ParseInt(ds) ==
    IF ds = <<>> THEN 0
    ELSE 10 * ParseInt(SubSeq(ds, 1, Len(ds) - 1)) + DigitValue(ds[Len(ds)])

\* re.search(r'(\d+)', s).group(1): the first maximal run of digits of s,
\* <<>> when s has no digit
FirstDigitRun(s) ==
    LET at == {i \in 1..Len(s) : s[i] \in DigitChars}
    IN  IF at = {} THEN <<>>
        ELSE LET b == MinOf(at)
                 n == Cardinality({i \in b..Len(s) :
                                      \A j \in b..i : s[j] \in DigitChars})
             IN  SubSeq(s, b, b + n - 1)

\* a slip in the bounds: the upper bound is not applied
ClampRateNoCeil(suggested_rate) ==
    IF suggested_rate < RateFloor THEN RateFloor ELSE suggested_rate

\* "Apply reasonable bounds"
ClampRate(suggested_rate) ==
    IF suggested_rate < RateFloor THEN RateFloor
    ELSE IF suggested_rate > RateCeil THEN RateCeil
    ELSE suggested_rate

\* the rate for the base rate and the stripped answer of the model
RateFromResponse(base_rate, rate_response) ==
    LET rate_match == FirstDigitRun(rate_response)
    IN  IF rate_match # <<>> THEN ClampRate(ParseInt(rate_match)) ELSE base_rate

\* suggest_hourly_rate(portfolio_data, platform)
SuggestHourlyRate ==
    /\ pc = "called"
    /\ call.op = "suggest_hourly_rate"
    /\ IF Lower(call.platform) # "upwork"
       THEN result' = "None" /\ sent' = sent
       ELSE /\ result' = RateFromResponse(BaseRate(TotalYears(call.experience)),
                                          Strip(OllamaGenerate(host)))
            /\ sent' = sent + 1
    /\ pc' = "returned"
    /\ UNCHANGED <<host, call, cacheVars, buildVars, logVars>>

\* str(n) for n >= 0
RECURSIVE DigitsOf(_)
DigitsOf(n) ==
    IF n < 10 THEN <<Digits[n + 1]>> ELSE Append(DigitsOf(n \div 10), Digits[(n % 10) + 1])

\* The answers the host gives to a rate prompt: text without a digit, or a
\* number with text (or a zero) before it and text (or a second number)
\* after it.
RateResponses ==
    { <<>>, <<"n", "/", "a">>, <<" ", "\n">> }
    \cup { pre \o DigitsOf(n) \o post :
             pre \in {<<>>, <<"$", "0">>}, n \in 0..MaxRate,
             post \in {<<>>, <<" ", "t", "o", " ", "9", "0">>} }

RateHosts == HostFailures \cup {HostNoKey} \cup {HostOk(t) : t \in RateResponses}

\* the duration strings of the experience entries ('' when the key is absent)
Durations ==
    { <<"2", "0", "2", "1", "-", "P", "r", "e", "s", "e", "n", "t">>,
      <<"t", "o", " ", "p", "r", "e", "s", "e", "n", "t">>,
      <<>> }

RECURSIVE SeqsUpTo(_, _)
SeqsUpTo(S, n) ==
    IF n = 0 THEN {<<>>}
    ELSE SeqsUpTo(S, n - 1)
            \cup {Append(q, x) : q \in {r \in SeqsUpTo(S, n - 1) : Len(r) = n - 1}, x \in S}

RateCalls ==
    {Call("suggest_hourly_rate", p, <<>>, <<>>, 0, e) :
        p \in {"upwork"}, e \in SeqsUpTo(Durations, MaxExp)}
    \cup {Call("suggest_hourly_rate", p, <<>>, <<>>, 0, <<>>) : p \in {"Upwork", "linkedin"}}

InitRate ==
    /\ host \in RateHosts
    /\ call \in RateCalls
    /\ pc = "called"
    /\ result = <<>>
    /\ sent = 0
    /\ CacheIdle
    /\ BuildIdle
    /\ LogIdle

NextRate == SuggestHourlyRate

SpecRate == InitRate /\ [][NextRate]_vars

---------------------------------------------------------------------------
(* Claims about suggest_hourly_rate. *)

RateReturned ==
    pc = "returned" /\ call.op = "suggest_hourly_rate" /\ Lower(call.platform) = "upwork"

\* C6: for platform upwork, every experience list and every model response
\* (the Model Client's fallback text included), suggest_hourly_rate returns
\* an integer in the closed range [15, 150].
C6_RateInRange == RateReturned => result \in 15..150

\* C6 witness: the model answered with a number above 150 and the rate
\* returned is 150.
C6_Witness ==
    /\ RateReturned
    /\ host.kind = "ok"
    /\ host.text = DigitsOf(152)
    /\ result = 150

\* the experience-year estimate of the claim: 2 years for each entry whose
\* duration contains 'Present', 1 year for every other entry
EstimateOf(experiences) ==
    2 * Cardinality({i \in 1..Len(experiences) : Contains(experiences[i], Present)})
      + Cardinality({i \in 1..Len(experiences) : ~Contains(experiences[i], Present)})

\* the baseline of the claim
BaselineOf(estimate) ==
    CASE estimate < 3 -> 25
      [] estimate >= 3 /\ estimate < 5 -> 40
      [] estimate >= 5 /\ estimate < 8 -> 55
      [] OTHER -> 70

\* C7: when the model response contains no digit, suggest_hourly_rate for
\* upwork returns the baseline of the experience-year estimate: 25 below 3
\* years, 40 below 5, 55 below 8 and 70 otherwise.
C7_BaselineWithoutDigit ==
    (RateReturned /\ Range(OllamaGenerate(host)) \cap DigitChars = {})
        => result = BaselineOf(EstimateOf(call.experience))

\* C7 witness: the request failed, the fallback text (no digit) came back, and
\* an estimate of exactly 8 years (four current positions) gave 70.
C7_Witness ==
    /\ RateReturned
    /\ host.kind = "down"
    /\ Len(call.experience) = 4
    /\ EstimateOf(call.experience) = 8
    /\ result = 70

---------------------------------------------------------------------------
(* Model Client: generate called by itself, with every answer of the host
   that the generator operations are given. *)

GenerateHosts == TitleHosts \cup SkillHosts \cup RateHosts \cup {HostBadJson}

InitGenerate ==
    /\ host \in GenerateHosts
    /\ call = Call("generate", "generic", <<>>, <<>>, 0, <<>>)
    /\ pc = "called"
    /\ result = <<>>
    /\ sent = 0
    /\ CacheIdle
    /\ BuildIdle
    /\ LogIdle

NextGenerate == Generate

SpecGenerate == InitGenerate /\ [][NextGenerate]_vars

\* generate was called and is over
GenerateDone == call.op = "generate" /\ pc # "called"

\* C13: OllamaClient.generate never raises: it sends exactly one request per
\* call (no retry), and on any transport failure or non-200 status it returns
\* the same fixed fallback string, otherwise the response text.
C13_GenerateNeverRaises ==
    GenerateDone
        => /\ pc = "returned"
           /\ sent = 1
           /\ host.kind \in {"down", "status"} => result = FallbackText
           /\ host.kind = "ok" => result = host.text

\* C13 witness: the host answered with a non-200 status, and generate
\* returned the fallback text after its one request.
C13_Witness ==
    /\ GenerateDone
    /\ host.kind = "status"
    /\ pc = "returned"
    /\ result = FallbackText
    /\ sent = 1

---------------------------------------------------------------------------
(* Portfolio Extractor: the cache of extract(). *)

\* last minute of the clock
MaxTime == 2

\* largest cache_duration_minutes an extractor is built with
MaxDuration == 2

\* what rendering the page gives: an exception, or the page's content (the
\* text of its h1, '' when no selector matches, and its experience items)
PageRaises == NoPage

\* a page on which nothing matches, and a page whose selectors match
Pages ==
    { [ok |-> TRUE, name_sel |-> "", name_ld |-> "", jobs_sel |-> <<>>,
       scroll_ok |-> TRUE, jobs_ld |-> <<>>],
      [ok |-> TRUE, name_sel |-> "Ada", name_ld |-> "", jobs_sel |-> <<"Engineer">>,
       scroll_ok |-> TRUE, jobs_ld |-> <<>>] }

\* one page per strategy that can be the one to answer: the selectors, the
\* JSON-LD block, the except clause (the scroll raises), the fallbacks
AllPages ==
    Pages \cup
    { [ok |-> TRUE, name_sel |-> "", name_ld |-> "Bob", jobs_sel |-> <<>>,
       scroll_ok |-> TRUE, jobs_ld |-> <<"Analyst", "Clerk">>],
      [ok |-> TRUE, name_sel |-> "", name_ld |-> "", jobs_sel |-> <<>>,
       scroll_ok |-> FALSE, jobs_ld |-> <<>>] }

DefaultName == "Rishav Chatterjee"

\* the titles of the three fallback entries
DefaultJobs == <<"Technology Lead", "Senior Data Engineer", "Data Engineer">>

\* the titles of the two entries the except clause returns
ExceptJobs == <<"Technology Lead", "Senior Data Engineer">>

\* _extract_basic_info, the name: the selectors, then JSON-LD, then the
\* fallback
ExtractName(page) ==
    IF page.name_sel # "" THEN page.name_sel
    ELSE IF page.name_ld # "" THEN page.name_ld
    ELSE DefaultName

\* _extract_experience with the except clause's list as its fallback
ExtractExperienceShort(page) ==
    IF page.jobs_sel # <<>> THEN page.jobs_sel
    ELSE IF ~page.scroll_ok THEN ExceptJobs
    ELSE IF page.jobs_ld # <<>> THEN page.jobs_ld
    ELSE ExceptJobs

\* _extract_experience: the selectors; then a scroll and a second read of the
\* page (an exception there ends in the except clause) and JSON-LD; then the
\* fallback
ExtractExperience(page) ==
    IF page.jobs_sel # <<>> THEN page.jobs_sel
    ELSE IF ~page.scroll_ok THEN ExceptJobs
    ELSE IF page.jobs_ld # <<>> THEN page.jobs_ld
    ELSE DefaultJobs

\* datetime.now().isoformat()
IsoFormat(t) == ToString(t)

\* the portfolio_data dict built from the page's fields and the clock
PortfolioData(page, t) ==
    [name |-> ExtractName(page),
     experience |-> ExtractExperience(page),
     last_updated |-> IsoFormat(t)]

\* json.dump(data, f): the file's text, token by token
JsonDump(data) ==
    <<"{", "name", data.name, "experience", "[">> \o data.experience
        \o <<"]", "last_updated", data.last_updated, "}">>

\* json.load(f): "error" when the text is no JSON of this shape, "empty" for
\* an empty object, else the value
JsonLoad(text) ==
    LET close == {i \in 6..Len(text) : text[i] = "]"}
    IN  IF text = <<"{", "}">> THEN [kind |-> "empty", value |-> None]
        ELSE IF /\ Len(text) >= 9
                /\ SubSeq(text, 1, 2) = <<"{", "name">>
                /\ SubSeq(text, 4, 5) = <<"experience", "[">>
                /\ close # {}
                /\ Len(text) = MinOf(close) + 3
                /\ text[MinOf(close) + 1] = "last_updated"
                /\ text[Len(text)] = "}"
        THEN [kind |-> "value",
              value |-> Some([name |-> text[3],
                              experience |-> SubSeq(text, 6, MinOf(close) - 1),
                              last_updated |-> text[MinOf(close) + 2]])]
        ELSE [kind |-> "error", value |-> None]

\* the age compared in seconds against a duration given in minutes
IsCacheValidSeconds(file, duration, t) ==
    file.exists /\ (t - file.mtime) * 60 < duration

\* the age compared with <= where the code has <
IsCacheValidInclusive(file, duration, t) ==
    file.exists /\ (t - file.mtime) <= duration

\* _is_cache_valid
IsCacheValid(file, duration, t) ==
    file.exists /\ (t - file.mtime) < duration

\* _load_cache: None when the file cannot be read or parsed
LoadCache(file) ==
    IF JsonLoad(file.text).kind = "error" THEN [kind |-> "none", value |-> None]
    ELSE JsonLoad(file.text)

\* "if cached_data:"
Truthy(loaded) == loaded.kind = "value"

\* the record kept of one extract() call
CallRecord(url, use_cache, duration, age, source, data, fetched, saved, before, page) ==
    [called |-> TRUE, at |-> now, url |-> url, use_cache |-> use_cache,
     duration |-> duration, age |-> age, source |-> source, data |-> data, fetched |-> fetched,
     saved |-> saved, before |-> before, page |-> page]

\* the fresh extraction of extract(): render the page, build portfolio_data,
\* stamp it, _save_cache it (a failed write is logged and ignored), return it
ExtractFresh(url, use_cache, duration, age, pages) ==
    LET f == CacheFile(url)
    IN  \E page \in pages :
          IF ~page.ok
          THEN /\ lastCall' = CallRecord(url, use_cache, duration, age, "error",
                                         None, TRUE, FALSE, files[f], page)
               /\ UNCHANGED <<files, written>>
          ELSE \E save_ok \in BOOLEAN :
                 LET data == PortfolioData(page, now)
                 IN  /\ lastCall' = CallRecord(url, use_cache, duration, age, "fresh",
                                               Some(data), TRUE, save_ok, files[f], page)
                     /\ files' = IF save_ok
                                 THEN [files EXCEPT ![f] =
                                          [exists |-> TRUE, mtime |-> now,
                                           text |-> JsonDump(data), origin |-> url]]
                                 ELSE files
                     /\ written' = IF save_ok THEN [written EXCEPT ![f] = Some(data)]
                                   ELSE written

\* PortfolioExtractor(url, use_cache, cache_duration_minutes).extract(), on a
\* site that answers with one of pages
Extract(url, use_cache, duration, pages) ==
    LET f == CacheFile(url)
        age == IF files[f].exists THEN now - files[f].mtime ELSE -1
    IN  IF /\ use_cache
           /\ IsCacheValid(files[f], duration, now)
           /\ Truthy(LoadCache(files[f]))
        THEN /\ lastCall' = CallRecord(url, use_cache, duration, age, "cache",
                                       LoadCache(files[f]).value, FALSE, FALSE, files[f],
                                       NoPage)
             /\ UNCHANGED <<files, written>>
        ELSE ExtractFresh(url, use_cache, duration, age, pages)

ExtractCall ==
    /\ \E url \in Urls, use_cache \in BOOLEAN, duration \in 0..MaxDuration :
          Extract(url, use_cache, duration, Pages \cup {PageRaises})
    /\ UNCHANGED <<now, genVars, buildVars, logVars>>

\* time passes
Tick ==
    /\ now < MaxTime
    /\ now' = now + 1
    /\ UNCHANGED <<files, written, lastCall, genVars, buildVars, logVars>>

GenIdle ==
    /\ host = HostNoKey
    /\ call = Call("none", "generic", <<>>, <<>>, 0, <<>>)
    /\ pc = "returned"
    /\ result = <<>>
    /\ sent = 0

InitCache == CacheIdle /\ GenIdle /\ BuildIdle /\ LogIdle

NextCache == ExtractCall \/ Tick

SpecCache == InitCache /\ [][NextCache]_vars

---------------------------------------------------------------------------
(* Claims about the cache. *)

\* the last extract() call had caching on and found a cache file whose age
\* was under its cache_duration_minutes
CalledWithinWindow ==
    /\ lastCall.called
    /\ lastCall.use_cache
    /\ lastCall.age >= 0
    /\ lastCall.age < lastCall.duration

\* C8: a call of extract() with use_cache=true that finds the cache file of a
\* fresh extraction younger than cache_duration_minutes returns exactly the
\* PortfolioData that was written (same last_updated), renders no page and
\* does not rewrite the cache file.
C8_CacheRoundTrip ==
    CalledWithinWindow
        => /\ lastCall.source = "cache"
           /\ lastCall.data = written[CacheFile(lastCall.url)]
           /\ lastCall.data # None
           /\ ~lastCall.fetched
           /\ ~lastCall.saved
           /\ files[CacheFile(lastCall.url)] = lastCall.before

\* C8 witness: a minute after the fresh extraction that wrote the file, a
\* call with caching on returned the data stamped at the earlier minute.
C8_Witness ==
    /\ CalledWithinWindow
    /\ lastCall.age = 1
    /\ lastCall.source = "cache"
    /\ lastCall.data = written[CacheFile(lastCall.url)]
    /\ lastCall.data[1].last_updated = IsoFormat(lastCall.at - 1)
    /\ lastCall.data[1].name = "Ada"

\* the last extract() call had caching on and found a cache file whose age
\* was not under its cache_duration_minutes
CalledOutsideWindow ==
    /\ lastCall.called
    /\ lastCall.use_cache
    /\ lastCall.age >= 0
    /\ lastCall.age >= lastCall.duration

\* C9: with use_cache=true, a cache file whose age is not under
\* cache_duration_minutes (older, or exactly at the duration) is never
\* returned: extract() renders the page for a fresh extraction instead.
C9_ExpiredCacheIgnored ==
    CalledOutsideWindow
        => /\ lastCall.source # "cache"
           /\ lastCall.fetched
           /\ lastCall.source = "fresh"
                => lastCall.data[1].last_updated = IsoFormat(lastCall.at)

\* C9 witness: the file was exactly as old as the duration (1 minute), and
\* the call extracted afresh and replaced the file.
C9_Witness ==
    /\ CalledOutsideWindow
    /\ lastCall.duration = 1
    /\ lastCall.age = 1
    /\ lastCall.source = "fresh"
    /\ lastCall.saved
    /\ files[CacheFile(lastCall.url)] # lastCall.before

\* C18: every distinct source URL has its own cache file, so extract() with
\* use_cache=true never returns PortfolioData that was extracted from
\* another URL.
C18_CacheNeverFromOtherUrl ==
    (lastCall.called /\ lastCall.source = "cache")
        => lastCall.before.origin = lastCall.url

---------------------------------------------------------------------------
(* POST /extract, on sites whose pages exercise each extraction strategy. *)

\* cache_duration_minutes=60
ExtractDuration == 60

\* POST /extract with portfolio_url (none, or one of urls), use_cache and
\* force_refresh
ExtractPortfolio(urls, pages) ==
    /\ \E url \in urls \cup {<<>>}, use_cache \in BOOLEAN, force_refresh \in BOOLEAN :
          LET cached == use_cache /\ ~force_refresh
          IN  /\ httpReq' = [NoRequest EXCEPT !.endpoint = "/extract", !.url = url,
                                              !.use_cache = use_cache,
                                              !.force_refresh = force_refresh]
              /\ IF url = <<>>
                 THEN /\ httpResp' = [NoResponse EXCEPT !.code = 400,
                                         !.error = "Portfolio URL is required"]
                      /\ UNCHANGED <<files, written, lastCall>>
                 ELSE /\ Extract(url, cached, ExtractDuration, pages)
                      /\ httpResp' =
                           IF lastCall'.source = "error"
                           THEN [NoResponse EXCEPT !.code = 500, !.error = "render"]
                           ELSE [NoResponse EXCEPT !.code = 200,
                                   !.message = IF ~cached THEN "Fresh data extracted"
                                               ELSE "Cached data retrieved"]
    /\ UNCHANGED <<now, genVars, modelHost, apiLog, logVars>>

ExtractRequest == ExtractPortfolio(Urls, AllPages \cup {PageRaises})

NextExtract == ExtractRequest

SpecExtract == InitCache /\ [][NextExtract]_vars

\* no selector finds a name or an experience item, and the JSON-LD lookups,
\* which ran, found neither
NothingMatches(page) ==
    /\ page.ok
    /\ page.name_sel = "" /\ page.name_ld = ""
    /\ page.jobs_sel = <<>> /\ page.scroll_ok /\ page.jobs_ld = <<>>

\* C20: extract() with use_cache=false on a page where no selector strategy
\* and no structured-data strategy matches for any field returns
\* basic_info.name equal to "Rishav Chatterjee" and an experience list of
\* exactly 3 default entries.
C20_DefaultsWhenNothingMatches ==
    (lastCall.called /\ ~lastCall.use_cache /\ NothingMatches(lastCall.page))
        => /\ lastCall.source = "fresh"
           /\ lastCall.data[1].name = "Rishav Chatterjee"
           /\ Len(lastCall.data[1].experience) = 3
           /\ lastCall.data[1].experience = DefaultJobs

\* C20 witness: such a page was extracted with use_cache=false while the
\* cache file of the URL held another page's data, and the defaults came
\* back.
C20_Witness ==
    /\ lastCall.called /\ ~lastCall.use_cache /\ NothingMatches(lastCall.page)
    /\ lastCall.before.exists
    /\ JsonLoad(lastCall.before.text).value[1].name = "Bob"
    /\ lastCall.data[1].name = DefaultName
    /\ Len(lastCall.data[1].experience) = 3

---------------------------------------------------------------------------
(* Update Logger: log_profile_update and get_recent_logs. *)

\* most entries in all log files together
MaxLog == 2

\* largest limit a caller passes to get_recent_logs
MaxLimit == 2

\* datetime.now().isoformat() as characters, so that timestamps compare as
\* Python compares strings
IsoChars(t) == DigitsOf(t)

\* ord(c) for the characters of the timestamps
Ord(c) ==
    CASE c \in DigitChars -> 48 + DigitValue(c)
      [] c = "-" -> 45
      [] c = "T" -> 84
      [] OTHER -> 0

\* a < b on strings
StrLess(a, b) ==
    \E i \in 1..Len(b) :
        /\ Len(a) >= i - 1
        /\ \A j \in 1..(i - 1) : a[j] = b[j]
        /\ (Len(a) < i \/ Ord(a[i]) < Ord(b[i]))

\* x.get("timestamp", "")
TimestampKey(x) == IF x.timestamp = None THEN <<>> ELSE x.timestamp[1]

\* a slip: the timestamp is assigned like the other two keys
StampChangesAlways(platform, profile_url, changes, t) ==
    [changes EXCEPT !.timestamp = Some(IsoChars(t)),
                    !.platform = Some(platform),
                    !.profile_url = Some(profile_url)]

\* lines 33-39: the timestamp is set when the key is absent; platform and
\* profile_url are assigned
StampChanges(platform, profile_url, changes, t) ==
    [changes EXCEPT !.timestamp = IF changes.timestamp = None
                                  THEN Some(IsoChars(t)) ELSE changes.timestamp,
                    !.platform = Some(platform),
                    !.profile_url = Some(profile_url)]

\* a logger that never reads the file: every call starts from []
StartingEntriesFresh(file) ==
    IF file.exists /\ file.kind = "object" THEN [raised |-> TRUE, entries |-> <<>>]
    ELSE [raised |-> FALSE, entries |-> <<>>]

\* the entries to start from, or the exception raised on the way to
\* entries.append(changes): a missing file and a JSONDecodeError give [],
\* a loaded value that is no list has no append
StartingEntries(file) ==
    IF ~file.exists THEN [raised |-> FALSE, entries |-> <<>>]
    ELSE IF file.kind = "garbage" THEN [raised |-> FALSE, entries |-> <<>>]
    ELSE IF file.kind = "array" THEN [raised |-> FALSE, entries |-> file.entries]
    ELSE [raised |-> TRUE, entries |-> <<>>]

\* log_profile_update(platform, profile_url, changes); write_ok says whether
\* the file can be opened for writing
LogProfileUpdate(platform, profile_url, changes, write_ok) ==
    LET entry == StampChanges(platform, profile_url, changes, now)
        start == StartingEntries(logFiles[platform])
        done == ~start.raised /\ write_ok
    IN  /\ logFiles' = IF done
                       THEN [logFiles EXCEPT ![platform] =
                                [exists |-> TRUE, kind |-> "array",
                                 entries |-> Append(start.entries, entry)]]
                       ELSE logFiles
        /\ logCall' = [op |-> "log", platform |-> Some(platform),
                       profile_url |-> profile_url, limit |-> 0, at |-> now,
                       changes |-> changes, before |-> logFiles[platform],
                       write_ok |-> write_ok, ok |-> done, entries |-> <<>>]
        /\ writers' = writers

\* the number of entries in all log files
LoggedEntries ==
    LET RECURSIVE Sum(_)
        Sum(S) == IF S = {} THEN 0
                  ELSE LET p == CHOOSE q \in S : TRUE
                       IN  Len(logFiles[p].entries) + Sum(S \ {p})
    IN  Sum(LogPlatforms)

\* the change records callers pass: with or without a timestamp of their
\* own, and with or without a platform and a profile_url of their own
ChangeRecords ==
    { [NoChanges EXCEPT !.timestamp = ts, !.platform = pu[1], !.profile_url = pu[2]] :
        ts \in {None, Some(<<"1", "5">>)},
        pu \in {<<None, None>>, <<Some("github"), Some("old-url")>>} }

LogProfileUpdateCall ==
    /\ LoggedEntries < MaxLog
    /\ \E platform \in LogPlatforms, changes \in ChangeRecords, write_ok \in BOOLEAN :
          LogProfileUpdate(platform, "new-url", changes, write_ok)
    /\ UNCHANGED <<genVars, cacheVars, buildVars>>

\* all_logs.sort(key=lambda x: x.get("timestamp", ""), reverse=True): stable,
\* entries with equal keys keep their order
RECURSIVE SortNewestFirst(_)
SortNewestFirst(logs) ==
    IF logs = <<>> THEN <<>>
    ELSE LET s == SortNewestFirst(SubSeq(logs, 1, Len(logs) - 1))
             e == logs[Len(logs)]
             k == Cardinality({i \in 1..Len(s) :
                                  ~StrLess(TimestampKey(s[i]), TimestampKey(e))})
         IN  SubSeq(s, 1, k) \o <<e>> \o SubSeq(s, k + 1, Len(s))

\* the same sort without reverse=True
RECURSIVE SortOldestFirst(_)
SortOldestFirst(logs) ==
    IF logs = <<>> THEN <<>>
    ELSE LET s == SortOldestFirst(SubSeq(logs, 1, Len(logs) - 1))
             e == logs[Len(logs)]
             k == Cardinality({i \in 1..Len(s) :
                                  ~StrLess(TimestampKey(e), TimestampKey(s[i]))})
         IN  SubSeq(s, 1, k) \o <<e>> \o SubSeq(s, k + 1, Len(s))

\* the sort of get_recent_logs
SortLogs(logs) == SortNewestFirst(logs)

\* logs[:limit], for a limit of either sign
SliceTo(logs, limit) ==
    IF limit >= 0
    THEN SubSeq(logs, 1, IF limit < Len(logs) THEN limit ELSE Len(logs))
    ELSE SubSeq(logs, 1, IF Len(logs) + limit > 0 THEN Len(logs) + limit ELSE 0)

\* a reader that takes every log file, whatever platform is asked for
LogFilesToReadAll(platform, listing) ==
    SelectSeq(IF listing = <<>> THEN <<"linkedin", "upwork">> ELSE listing,
              LAMBDA p : logFiles[p].exists)

\* the log files get_recent_logs reads, in the order it reads them: the one
\* file of a platform, or those os.listdir gives
LogFilesToRead(platform, listing) ==
    IF platform # None
    THEN (IF logFiles[platform[1]].exists THEN <<platform[1]>> ELSE <<>>)
    ELSE SelectSeq(listing, LAMBDA p : logFiles[p].exists)

\* the loop over the files: a file that cannot be parsed is skipped
RECURSIVE ReadLogs(_)
ReadLogs(names) ==
    IF names = <<>> THEN <<>>
    ELSE (IF logFiles[Head(names)].kind = "array"
          THEN logFiles[Head(names)].entries ELSE <<>>)
            \o ReadLogs(Tail(names))

\* get_recent_logs(platform, limit): a file holding a JSON object extends
\* all_logs by its keys, on which the sort raises and [] is returned
GetRecentLogs(platform, limit, listing) ==
    LET names == LogFilesToRead(platform, listing)
    IN  IF \E i \in 1..Len(names) : logFiles[names[i]].kind = "object"
        THEN <<>>
        ELSE SliceTo(SortLogs(ReadLogs(names)), limit)

\* the orders os.listdir may give the log files in
Listings == {<<"linkedin", "upwork">>, <<"upwork", "linkedin">>}

GetRecentLogsCall ==
    /\ \E platform \in {None} \cup {Some(p) : p \in LogPlatforms},
          limit \in (-1)..MaxLimit :
        \E listing \in IF platform = None THEN Listings ELSE {<<>>} :
          logCall' = [op |-> "recent", platform |-> platform, profile_url |-> "",
                      limit |-> limit, at |-> now, changes |-> NoChanges,
                      before |-> NoLogFile, write_ok |-> FALSE, ok |-> TRUE,
                      entries |-> GetRecentLogs(platform, limit, listing)]
    /\ UNCHANGED <<logFiles, writers, genVars, cacheVars, buildVars>>

\* a log file whose text is no JSON, and one whose text is a JSON object
GarbageLogFile == [exists |-> TRUE, kind |-> "garbage", entries |-> <<>>]

ObjectLogFile == [exists |-> TRUE, kind |-> "object", entries |-> <<>>]

InitLog ==
    /\ logFiles \in [LogPlatforms -> {NoLogFile, GarbageLogFile, ObjectLogFile}]
    /\ logCall = NoLogCall
    /\ writers = NoWriters
    /\ GenIdle
    /\ CacheIdle
    /\ BuildIdle

NextLog == LogProfileUpdateCall \/ GetRecentLogsCall \/ Tick

SpecLog == InitLog /\ [][NextLog]_vars

---------------------------------------------------------------------------
(* Claims about the Update Logger. *)

\* the last call was log_profile_update and its file could be written
LogCalled == logCall.op = "log" /\ logCall.write_ok

\* the log file of the last log_profile_update call, as it is now
LoggedFile == logFiles[logCall.platform[1]]

\* the entry the last log_profile_update call was to store
NewEntry ==
    StampChanges(logCall.platform[1], logCall.profile_url, logCall.changes, logCall.at)

\* C15: if the platform's log file is missing or its content is not a usable
\* JSON array (unparseable text, or valid JSON that is not an array),
\* log_profile_update returns True and the file afterwards holds exactly the
\* one new entry.
C15_UnusableLogStartsEmpty ==
    (LogCalled /\ (~logCall.before.exists \/ logCall.before.kind # "array"))
        => /\ logCall.ok
           /\ LoggedFile.exists
           /\ LoggedFile.kind = "array"
           /\ LoggedFile.entries = <<NewEntry>>

\* the entry the last successful log_profile_update call appended
StoredEntry == LoggedFile.entries[Len(LoggedFile.entries)]

\* C16: log_profile_update injects timestamp, platform and profile_url only
\* when the change record does not already have that key: a value already
\* present in changes is stored unchanged.
C16_InjectedOnlyWhenAbsent ==
    (LogCalled /\ logCall.ok)
        => /\ logCall.changes.timestamp # None
                => StoredEntry.timestamp = logCall.changes.timestamp
           /\ logCall.changes.platform # None
                => StoredEntry.platform = logCall.changes.platform
           /\ logCall.changes.profile_url # None
                => StoredEntry.profile_url = logCall.changes.profile_url

\* C16 as amended: a timestamp already present in changes is stored
\* unchanged and one is injected only when the key is absent; platform and
\* profile_url are always stored as the call's arguments, whatever changes
\* held under those keys; every other key is stored unchanged.
C16_TimestampKeptRestAssigned ==
    (LogCalled /\ logCall.ok)
        => /\ StoredEntry.timestamp =
                 (IF logCall.changes.timestamp # None THEN logCall.changes.timestamp
                  ELSE Some(IsoChars(logCall.at)))
           /\ StoredEntry.platform = logCall.platform
           /\ StoredEntry.profile_url = Some(logCall.profile_url)
           /\ \A k \in {"headline", "about", "skills_added", "extra"} :
                 StoredEntry[k] = logCall.changes[k]

\* C16 witness: a record that came with a timestamp, a platform and a
\* profile_url of its own was stored, after the clock had moved on, with its
\* timestamp kept and the other two replaced by the arguments.
C16_Witness ==
    /\ LogCalled /\ logCall.ok
    /\ logCall.at = 2
    /\ logCall.changes.timestamp = Some(<<"1", "5">>)
    /\ logCall.changes.platform = Some("github")
    /\ logCall.changes.profile_url = Some("old-url")
    /\ StoredEntry.timestamp = Some(<<"1", "5">>)
    /\ StoredEntry.platform = Some("linkedin")
    /\ StoredEntry.profile_url = Some("new-url")

\* no timestamp increases from one entry to the next
NewestFirst(entries) ==
    \A i \in 1..(Len(entries) - 1) :
        ~StrLess(TimestampKey(entries[i]), TimestampKey(entries[i + 1]))

\* C17: for every platform argument (a platform or none) and every integer
\* limit, after any sequence of log_profile_update calls get_recent_logs
\* returns at most limit entries, ordered so that timestamps never increase
\* from one entry to the next.
C17_AtMostLimitNewestFirst ==
    logCall.op = "recent"
        => Len(logCall.entries) <= logCall.limit /\ NewestFirst(logCall.entries)

\* C17 as amended: the same for every limit that is not negative.
C17_NonNegativeLimit ==
    (logCall.op = "recent" /\ logCall.limit >= 0)
        => Len(logCall.entries) <= logCall.limit /\ NewestFirst(logCall.entries)

\* C17 witness: two entries were logged, the later one with an older
\* timestamp of its caller's; a read of all platforms with limit 1 returned
\* only the entry with the newer timestamp.
C17_Witness ==
    /\ logCall.op = "recent"
    /\ logCall.platform = None
    /\ logCall.limit = 1
    /\ LoggedEntries = 2
    /\ Len(logCall.entries) = 1
    /\ \E p \in LogPlatforms :
          /\ Len(logFiles[p].entries) = 2
          /\ logCall.entries[1] = logFiles[p].entries[1]
          /\ StrLess(TimestampKey(logFiles[p].entries[2]),
                     TimestampKey(logFiles[p].entries[1]))

---------------------------------------------------------------------------
(* Profile Builder behind POST /build_profile and LinkedIn Profile Builder
   behind POST /build_linkedin_profile. *)

\* The model host: the ollama process runs, is stopped (and can be started)
\* or is not installed; GET /api/tags answers 200, another status, or the
\* connection fails; the model is among the tags or not; a pull succeeds or
\* not.
ModelHosts ==
    [process : {"running", "stopped", "missing"}, api : {"ok", "status", "down"},
     has_model : BOOLEAN, pull_ok : BOOLEAN]

\* one step of a constructor or handler: the host after it, the requests it
\* sent to the host, and the exception it raised ("" for none)
Step(h, log, raised) == [host |-> h, log |-> log, raised |-> raised]

\* OllamaClient.__init__ -> _ensure_model_loaded, on host h
EnsureModelLoaded(h) ==
    IF h.process = "missing"
    THEN Step(h, <<>>, "FileNotFoundError")
    ELSE LET started == [h EXCEPT !.process = "running"]
         IN  CASE h.api = "down" ->
                    Step(started, <<"GET /api/tags">>, "ConnectionError")
               [] h.api = "status" ->
                    Step(started, <<"GET /api/tags">>, "Could not connect to Ollama API")
               [] h.api = "ok" /\ h.has_model ->
                    Step(started, <<"GET /api/tags">>, "")
               [] h.api = "ok" /\ ~h.has_model /\ h.pull_ok ->
                    Step([started EXCEPT !.has_model = TRUE],
                         <<"GET /api/tags", "POST /api/pull">>, "")
               [] OTHER ->
                    Step(started, <<"GET /api/tags", "POST /api/pull">>,
                         "Failed to pull model")

\* run step b after step a unless a raised
Then(a, b) ==
    IF a.raised # "" THEN a ELSE Step(b.host, a.log \o b.log, b.raised)

\* ProfileBuilder.__init__: an OllamaClient of its own, then the one inside
\* DeepseekProfileGenerator()
ProfileBuilderInit(h) ==
    LET first == EnsureModelLoaded(h)
    IN  Then(first, EnsureModelLoaded(first.host))

\* the keys of platform_map
SupportedPlatforms == {"upwork", "linkedin"}

UnsupportedError == "Platform is not supported"

\* the POST /api/generate requests of a handler: title, overview, skills
\* (none when portfolio_data has no skills) and rate for upwork; headline,
\* about and skills for linkedin
GenerateRequests(platform, has_skills) ==
    IF platform = "upwork" /\ has_skills
    THEN <<"POST /api/generate", "POST /api/generate", "POST /api/generate",
           "POST /api/generate">>
    ELSE <<"POST /api/generate", "POST /api/generate", "POST /api/generate">>

\* build(): the platform check, then the platform's handler
Build(platform, has_skills, h) ==
    IF platform \notin SupportedPlatforms
    THEN Step(h, <<>>, UnsupportedError)
    ELSE Step(h, GenerateRequests(platform, has_skills), "")

\* a test that looks at the username only
UsableCredentialsUsernameOnly(req) == req.has_credentials /\ req.username # ""

\* "if self.credentials.get('username') and self.credentials.get('password')"
\* ("credentials and ..." in LinkedInProfileBuilder)
UsableCredentials(req) ==
    req.has_credentials /\ req.username # "" /\ req.password # ""

\* str(e) of what the browser automation raised
BrowserError == "Timeout while updating profile"

\* the result of a ProfileBuilder handler in a 200 answer: the browser is
\* driven only with usable credentials; when it raises, the 'error' key is
\* added and the status kept
HandlerResult(req, browser_ok) ==
    IF ~UsableCredentials(req)
    THEN [NoResponse EXCEPT !.code = 200, !.status = "content_generated"]
    ELSE IF browser_ok
    THEN [NoResponse EXCEPT !.code = 200, !.status = "profile_updated", !.browser = TRUE]
    ELSE [NoResponse EXCEPT !.code = 200, !.status = "content_generated",
                            !.detail = BrowserError, !.browser = TRUE,
                            !.browser_raised = TRUE]

\* POST /build_profile with body req
BuildProfile(req, browser_ok) ==
    /\ httpReq' = req
    /\ IF req.platform = "" \/ ~req.has_data
       THEN /\ httpResp' = [NoResponse EXCEPT !.code = 400,
                              !.error = "Platform and portfolio data are required"]
            /\ apiLog' = <<>>
            /\ UNCHANGED modelHost
       ELSE LET run == Then(ProfileBuilderInit(modelHost),
                            Build(Lower(req.platform), req.has_skills,
                                  ProfileBuilderInit(modelHost).host))
            IN  /\ modelHost' = run.host
                /\ apiLog' = run.log
                /\ httpResp' = IF run.raised # ""
                               THEN [NoResponse EXCEPT !.code = 500, !.error = run.raised]
                               ELSE HandlerResult(req, browser_ok)

\* the credentials of a request: absent, or a dict with a username and a
\* password that may be empty
CredentialsSent ==
    {[has_credentials |-> FALSE, username |-> "", password |-> ""]}
    \cup [has_credentials : {TRUE}, username : {"", "user"}, password : {"", "secret"}]

BuildRequests ==
    { [NoRequest EXCEPT !.endpoint = "/build_profile", !.platform = p, !.has_data = d,
                        !.has_skills = s, !.has_credentials = c.has_credentials,
                        !.username = c.username, !.password = c.password] :
        p \in {"", "upwork", "LinkedIn", "unknown"}, d \in BOOLEAN, s \in BOOLEAN,
        c \in CredentialsSent }

BuildProfileCall ==
    /\ \E req \in BuildRequests, browser_ok \in BOOLEAN : BuildProfile(req, browser_ok)
    /\ UNCHANGED <<genVars, cacheVars, logVars>>

\* LinkedInProfileBuilder.__init__: DeepseekProfileGenerator() builds the one
\* OllamaClient
LinkedInProfileBuilderInit(h) == EnsureModelLoaded(h)

\* generate_title, generate_overview and select_skills (which sends nothing
\* when portfolio_data has no skills)
ContentRequests(has_skills) ==
    IF has_skills
    THEN <<"POST /api/generate", "POST /api/generate", "POST /api/generate">>
    ELSE <<"POST /api/generate", "POST /api/generate">>

\* analyze_current_profile: one request; when the answer holds no JSON object
\* (or one that does not parse) the three generators run again
AnalyzeRequests(answer, has_skills) ==
    IF answer = "json" THEN <<"POST /api/generate">>
    ELSE <<"POST /api/generate">> \o ContentRequests(has_skills)

\* How the site takes the suggestions, field by field. headline and about:
\* "absent" (the suggestions hold no text for it), "ok" (_update_headline or
\* _update_about returned True), "fails" (it caught an exception and
\* returned False). skills: "absent", "fails" (an exception before any skill
\* was added), "none" (every skill was on the profile already, or could not
\* be added), "ok" (skills added and saved), "save fails" (skills added to
\* the form, then the click on Save raised).
AllWritten == [headline |-> "ok", about |-> "ok", skills |-> "ok"]

NoneWritten == [headline |-> "fails", about |-> "fails", skills |-> "fails"]

FieldOutcomes ==
    { AllWritten,
      NoneWritten,
      [headline |-> "absent", about |-> "absent", skills |-> "absent"],
      [headline |-> "fails", about |-> "ok", skills |-> "ok"],
      [headline |-> "ok", about |-> "fails", skills |-> "none"],
      [headline |-> "ok", about |-> "absent", skills |-> "save fails"] }

\* the fields update_linkedin_profile tries to write, in the order of its
\* three if statements
Attempted(outcome) ==
    (IF outcome.headline # "absent" THEN <<"headline">> ELSE <<>>)
        \o (IF outcome.about # "absent" THEN <<"about">> ELSE <<>>)
        \o (IF outcome.skills # "absent" THEN <<"skills">> ELSE <<>>)

\* the fields the site took
RemoteWrites(outcome) ==
    {f \in {"headline", "about", "skills"} : outcome[f] = "ok"}

\* _add_skills: the list it returns holds the skills it put into the form,
\* also when the click on Save raised afterwards
AddedSkills(skills) == IF skills \in {"ok", "save fails"} THEN <<"Python">> ELSE <<>>

\* update_linkedin_profile: the timestamp, and an entry for each field whose
\* helper returned True (a non-empty list for the skills)
UpdateLinkedinProfile(outcome, t) ==
    [NoChanges EXCEPT !.timestamp = Some(IsoChars(t)),
                      !.headline = IF outcome.headline = "ok"
                                   THEN Some("new headline") ELSE None,
                      !.about = IF outcome.about = "ok" THEN Some("new about") ELSE None,
                      !.skills_added = IF AddedSkills(outcome.skills) # <<>>
                                       THEN Some("Python") ELSE None]

\* page.url after page.goto('https://www.linkedin.com/in/me/')
ProfileUrl == "https://www.linkedin.com/in/me/"

\* a handler that files the update under the account's login and keeps the
\* password in the record
LoggedUpdateWithLogin(req, outcome, t) ==
    [profile_url |-> req.username,
     changes |-> [UpdateLinkedinProfile(outcome, t) EXCEPT !.extra = Some(req.password)]]

\* what the handler passes to log_profile_update: the page's URL and the
\* changes update_linkedin_profile returned, nothing of the request
LoggedUpdate(req, outcome, t) ==
    [profile_url |-> ProfileUrl, changes |-> UpdateLinkedinProfile(outcome, t)]

\* where the browser automation ends: in scrape_profile, in the second
\* login, on the way to the profile page after the update, or nowhere
BrowserOutcomes == {"scrape raises", "login raises", "profile page raises", "ok"}

\* the result when the browser automation raised: the outer except clause
\* for scrape_profile, the inner one after it
BrowserFailed ==
    [NoResponse EXCEPT !.code = 200, !.status = "error", !.detail = BrowserError,
                       !.browser = TRUE, !.browser_raised = TRUE]

\* POST /build_linkedin_profile with body req, on a site that takes the
\* suggestions in one of the ways of outcomes
BuildLinkedinProfile(req, outcomes) ==
    /\ httpReq' = req
    /\ IF ~req.has_data
       THEN /\ httpResp' = [NoResponse EXCEPT !.code = 400,
                              !.error = "Portfolio data is required"]
            /\ apiLog' = <<>>
            /\ UNCHANGED <<modelHost, logVars>>
       ELSE LET init == LinkedInProfileBuilderInit(modelHost)
                content == init.log \o ContentRequests(req.has_skills)
            IN  /\ modelHost' = init.host
                /\ IF init.raised # ""
                   THEN /\ httpResp' = [NoResponse EXCEPT !.code = 500,
                                          !.error = init.raised]
                        /\ apiLog' = init.log
                        /\ UNCHANGED logVars
                   ELSE IF ~UsableCredentials(req)
                   THEN /\ httpResp' = [NoResponse EXCEPT !.code = 200,
                                          !.status = "content_generated"]
                        /\ apiLog' = content
                        /\ UNCHANGED logVars
                   ELSE \E browser \in BrowserOutcomes :
                        IF browser \in {"scrape raises", "login raises"}
                        THEN /\ httpResp' = BrowserFailed
                             /\ apiLog' = content
                             /\ UNCHANGED logVars
                        ELSE \E answer \in {"json", "text"}, outcome \in outcomes :
                             /\ apiLog' = content \o AnalyzeRequests(answer, req.has_skills)
                             /\ IF browser = "profile page raises"
                                THEN /\ httpResp' =
                                          [BrowserFailed EXCEPT
                                             !.attempted = Attempted(outcome),
                                             !.remote = RemoteWrites(outcome),
                                             !.changes = UpdateLinkedinProfile(outcome, now)]
                                     /\ UNCHANGED logVars
                                ELSE /\ LoggedEntries < MaxLog
                                     /\ httpResp' =
                                          [NoResponse EXCEPT
                                             !.code = 200,
                                             !.status = "profile_updated",
                                             !.browser = TRUE,
                                             !.attempted = Attempted(outcome),
                                             !.remote = RemoteWrites(outcome),
                                             !.changes = UpdateLinkedinProfile(outcome, now)]
                                     /\ \E write_ok \in BOOLEAN :
                                          LogProfileUpdate("linkedin",
                                              LoggedUpdate(req, outcome, now).profile_url,
                                              LoggedUpdate(req, outcome, now).changes,
                                              write_ok)

LinkedinRequests ==
    { [NoRequest EXCEPT !.endpoint = "/build_linkedin_profile", !.has_data = d,
                        !.has_skills = s, !.has_credentials = c.has_credentials,
                        !.username = c.username, !.password = c.password] :
        d \in BOOLEAN, s \in BOOLEAN, c \in CredentialsSent }

BuildLinkedinProfileCall ==
    /\ \E req \in LinkedinRequests : BuildLinkedinProfile(req, {AllWritten, NoneWritten})
    /\ UNCHANGED <<genVars, cacheVars>>

InitBuild ==
    /\ modelHost \in ModelHosts
    /\ apiLog = <<>>
    /\ httpReq = NoRequest
    /\ httpResp = NoResponse
    /\ GenIdle
    /\ CacheIdle
    /\ LogIdle

NextBuild == BuildProfileCall \/ BuildLinkedinProfileCall

SpecBuild == InitBuild /\ [][NextBuild]_vars

---------------------------------------------------------------------------
(* Claims about /build_profile and /build_linkedin_profile. *)

\* the last request named a platform outside {upwork, linkedin} and carried
\* portfolio data
UnknownPlatformRequested ==
    /\ httpResp.code # 0
    /\ httpReq.platform # ""
    /\ httpReq.has_data
    /\ Lower(httpReq.platform) \notin {"upwork", "linkedin"}

\* C10: building a profile for a platform outside {upwork, linkedin} ends in
\* the platform-not-supported error, and no request is sent to the model
\* host before that error is produced.
C10_UnknownPlatformNoModelRequest ==
    UnknownPlatformRequested
        => /\ httpResp.code = 500
           /\ httpResp.error = "Platform is not supported"
           /\ apiLog = <<>>

\* the endpoints that build a profile
BuildEndpoints == {"/build_profile", "/build_linkedin_profile"}

\* the last request reached a platform handler: it carried portfolio data
\* and, on /build_profile, named a supported platform, and the handler's
\* result came back
HandlerAnswered ==
    /\ httpReq.endpoint \in BuildEndpoints
    /\ httpResp.code = 200

\* the request's credentials are missing, or lack a username or a password
CredentialsUnusable(req) ==
    \/ ~req.has_credentials
    \/ req.username = ""
    \/ req.password = ""

\* C11: for every platform handler, when usable credentials are supplied and
\* the browser automation raises, the returned result has status 'error'
\* together with an error message, and never 'content_generated' nor
\* 'profile_updated'.
C11_BrowserFailureIsError ==
    (HandlerAnswered /\ ~CredentialsUnusable(httpReq) /\ httpResp.browser_raised)
        => /\ httpResp.status = "error"
           /\ httpResp.detail # ""
           /\ httpResp.status \notin {"content_generated", "profile_updated"}

\* C12: for every platform handler, when the credentials are missing or lack
\* a username or a password, the result has status 'content_generated', no
\* browser automation is started and no log record is written.
C12_NoCredentialsContentOnly ==
    [][(HandlerAnswered' /\ CredentialsUnusable(httpReq'))
          => /\ httpResp'.status = "content_generated"
             /\ ~httpResp'.browser
             /\ logFiles' = logFiles
             /\ logCall' = logCall]_<<httpReq, httpResp, apiLog, modelHost, logFiles, logCall>>

\* C12 witness: after an update was logged, a request whose credentials hold
\* a username and an empty password was answered with generated content,
\* and the log still holds the one record.
C12_Witness ==
    /\ HandlerAnswered
    /\ httpReq.has_credentials /\ httpReq.username # "" /\ httpReq.password = ""
    /\ httpResp.status = "content_generated"
    /\ ~httpResp.browser
    /\ Len(logFiles["linkedin"].entries) = 1

\* the model host is unreachable, answers with a non-success status, or
\* lacks the model
HostUnhealthy ==
    /\ modelHost.process = "running"
    /\ \/ modelHost.api \in {"down", "status"}
       \/ ~modelHost.has_model

\* C14: a model host that is unreachable, answers with a non-success status
\* or lacks the model never makes /build_profile or /build_linkedin_profile
\* answer with a failure: a request that carries portfolio data (and a
\* supported platform) is answered with a result.
C14_UnhealthyHostStillAnswers ==
    ( /\ httpResp.code # 0
      /\ httpReq.endpoint \in BuildEndpoints
      /\ httpReq.has_data
      /\ httpReq.endpoint = "/build_profile"
            => Lower(httpReq.platform) \in SupportedPlatforms
      /\ HostUnhealthy )
        => httpResp.code = 200

---------------------------------------------------------------------------
(* The three endpoints together, on a healthy model host. *)

\* requests that reach a handler, without credentials or with a username
\* and a password
AppBuildRequests ==
    {req \in BuildRequests :
        /\ req.has_data /\ req.has_skills /\ req.platform \in {"upwork", "LinkedIn"}
        /\ req.has_credentials => UsableCredentials(req)}

AppLinkedinRequests ==
    {req \in LinkedinRequests :
        /\ req.has_data /\ req.has_skills
        /\ req.has_credentials => UsableCredentials(req)}

\* the portfolio the operator extracts
AppUrls == {<<"https://", "a.com", "/">>}

AppExtract == ExtractPortfolio(AppUrls, Pages \cup {PageRaises})

AppBuildProfile ==
    /\ \E req \in AppBuildRequests, browser_ok \in BOOLEAN : BuildProfile(req, browser_ok)
    /\ UNCHANGED <<genVars, cacheVars, logVars>>

AppBuildLinkedinProfile ==
    /\ \E req \in AppLinkedinRequests :
          BuildLinkedinProfile(req, {AllWritten, NoneWritten})
    /\ UNCHANGED <<genVars, cacheVars>>

InitApp == GenIdle /\ CacheIdle /\ BuildIdle /\ LogIdle

NextApp == AppExtract \/ AppBuildProfile \/ AppBuildLinkedinProfile

SpecApp == InitApp /\ [][NextApp]_vars

\* the usernames and passwords requests carry
CredentialValues ==
    ({c.username : c \in CredentialsSent} \cup {c.password : c \in CredentialsSent})
        \ {""}

\* the strings a stored change record holds, its timestamp aside
EntryStrings(e) ==
    {f[1] : f \in {e.platform, e.profile_url, e.headline, e.about,
                   e.skills_added, e.extra} \ {None}}

\* C19: after any sequence of /extract, /build_profile and
\* /build_linkedin_profile requests, no cache file and no per-platform log
\* file contains the username or password of a request; a logged change
\* record carries only timestamp, platform, profile_url, headline, about
\* and skills_added.
C19_NoCredentialsPersisted ==
    /\ \A f \in CacheFiles :
          \A i \in 1..Len(files[f].text) : files[f].text[i] \notin CredentialValues
    /\ \A p \in LogPlatforms :
          \A i \in 1..Len(logFiles[p].entries) :
             LET e == logFiles[p].entries[i]
             IN  /\ e.extra = None
                 /\ EntryStrings(e) \cap CredentialValues = {}
                 /\ e.timestamp # None
                 /\ \A j \in 1..Len(e.timestamp[1]) : e.timestamp[1][j] \in DigitChars

\* C19 witness: requests with a username and a password were served by all
\* three endpoints' code, a cache file and the linkedin log were written,
\* and the last request carried both.
C19_Witness ==
    /\ \E f \in CacheFiles : files[f].exists
    /\ Len(logFiles["linkedin"].entries) >= 1
    /\ logFiles["linkedin"].entries[1].headline # None
    /\ httpReq.endpoint = "/build_profile"
    /\ httpReq.username = "user" /\ httpReq.password = "secret"
    /\ httpResp.status = "profile_updated"

---------------------------------------------------------------------------
(* Content Generator: analyze_current_profile. *)

\* max_skills=10 of the synthesized structure
AnalyzeMaxSkills == 10

\* re.search(r'({.*})', response, re.DOTALL): from the first "{" to the last
\* "}" after it; None when there is no such pair
BraceMatch(response) ==
    LET opens == {i \in 1..Len(response) : response[i] = "{"}
        closes == {j \in 1..Len(response) :
                     response[j] = "}" /\ \E i \in opens : i < j}
    IN  IF closes = {} THEN None
        ELSE Some(SubSeq(response, MinOf(opens),
                         CHOOSE j \in closes : \A k \in closes : k <= j))

\* the JSON scanner, on objects whose values are strings or objects: each
\* operator takes the position it starts at and gives the position after
\* what it read, 0 when the text is no JSON there
ScanString(s, i) ==
    IF i > Len(s) \/ i = 0 THEN 0
    ELSE IF s[i] # "\"" THEN 0
    ELSE LET ends == {j \in (i + 1)..Len(s) : s[j] = "\""}
         IN  IF ends = {} THEN 0 ELSE MinOf(ends) + 1

RECURSIVE ScanObject(_, _)
RECURSIVE ScanMembers(_, _)
ScanValue(s, i) ==
    IF i > Len(s) \/ i = 0 THEN 0
    ELSE IF s[i] = "\"" THEN ScanString(s, i)
    ELSE IF s[i] = "{" THEN ScanObject(s, i)
    ELSE 0

ScanMembers(s, i) ==
    LET colon == ScanString(s, i)
        after == IF colon = 0 \/ colon > Len(s) THEN 0
                 ELSE IF s[colon] = ":" THEN ScanValue(s, colon + 1)
                 ELSE 0
    IN  IF after = 0 \/ after > Len(s) THEN 0
        ELSE IF s[after] = "," THEN ScanMembers(s, after + 1)
        ELSE IF s[after] = "}" THEN after + 1
        ELSE 0

ScanObject(s, i) ==
    IF i + 1 > Len(s) THEN 0
    ELSE IF s[i] # "{" THEN 0
    ELSE IF s[i + 1] = "}" THEN i + 2
    ELSE ScanMembers(s, i + 1)

\* json.loads(json_str) raises unless the whole text is one JSON value
JsonLoadsRaises(json_str) == ScanObject(json_str, 1) # Len(json_str) + 1

\* the structure built from the three generators, and the requests they send
Synthesized(c, h) ==
    [source |-> "generators",
     headline |-> LimitTitle("linkedin", CleanTitle(OllamaGenerate(h))),
     about |-> Strip(OllamaGenerate(h)),
     experiences |-> <<>>,
     skills_to_add |-> SelectSkillsOutcome([c EXCEPT !.max_skills = AnalyzeMaxSkills], h).skills,
     json |-> <<>>,
     raised |-> FALSE,
     requests |-> 3 + SelectSkillsOutcome([c EXCEPT !.max_skills = AnalyzeMaxSkills], h).requests]

\* what json.loads returned, as it is
Suggested(json_str) ==
    [source |-> "model", headline |-> <<>>, about |-> <<>>, experiences |-> <<>>,
     skills_to_add |-> <<>>, json |-> json_str, raised |-> FALSE, requests |-> 1]

\* analyze_current_profile whose except clause is missing: the exception of
\* json.loads reaches the caller
AnalyzeOutcomeNoExcept(c, h) ==
    LET json_match == BraceMatch(OllamaGenerate(h))
    IN  IF json_match = None THEN Synthesized(c, h)
        ELSE IF JsonLoadsRaises(json_match[1])
        THEN [Suggested(<<>>) EXCEPT !.source = "none", !.raised = TRUE]
        ELSE Suggested(json_match[1])

\* analyze_current_profile(current_profile_data, portfolio_data) for
\* linkedin: the request, the search for a brace-delimited substring,
\* json.loads, and the structure synthesized in the else branch and in the
\* except clause
AnalyzeOutcome(c, h) ==
    LET json_match == BraceMatch(OllamaGenerate(h))
    IN  IF json_match = None THEN Synthesized(c, h)
        ELSE IF JsonLoadsRaises(json_match[1]) THEN Synthesized(c, h)
        ELSE Suggested(json_match[1])

AnalyzeCurrentProfile ==
    /\ pc = "called"
    /\ call.op = "analyze_current_profile"
    /\ result' = AnalyzeOutcome(call, host)
    /\ sent' = sent + AnalyzeOutcome(call, host).requests
    /\ pc' = IF AnalyzeOutcome(call, host).raised THEN "raised" ELSE "returned"
    /\ UNCHANGED <<host, call, cacheVars, buildVars, logVars>>

\* what the host's answer holds before, in place of and after a JSON object
AnswerLeads == { <<>>, <<"a", " ">>, <<"}">> }

AnswerCores ==
    { <<>>,
      <<"{", "}">>,
      <<"{", "\"", "h", "\"", ":", "\"", "x", "\"", "}">>,
      <<"{", "\"", "h", "\"", ":", "\"", "x", "\"", ",", "\"", "s", "\"", ":", "\"", "y", "\"", "}">>,
      <<"{", "\"", "h", "\"", ":", "{", "\"", "a", "\"", ":", "\"", "b", "\"", "}", "}">>,
      <<"{", "h", "}">>,
      <<"{", "\"", "h", "\"", ":", "\"", "x", "\"">>,
      <<"{", "\"", "h", "\"", ":", "\"", "x", "}">>,
      <<"{", "\"", "h", "\"", ":", "}">>,
      <<"{", "\"", "h", "\"", ":", "\"", "x", "\"", ",", "}">> }

AnswerTails == { <<>>, <<"\n", "b">>, <<"{", "}">>, <<"{">> }

\* eleven skills, one per line
ElevenSkills ==
    << "a", "\n", "b", "\n", "c", "\n", "d", "\n", "e", "\n", "f", "\n",
       "g", "\n", "h", "\n", "i", "\n", "j", "\n", "k" >>

AnalyzeResponses ==
    {l \o c \o t : l \in AnswerLeads, c \in AnswerCores, t \in AnswerTails}
        \cup {ElevenSkills}

AnalyzeHosts ==
    HostFailures \cup {HostNoKey, HostBadJson} \cup {HostOk(t) : t \in AnalyzeResponses}

AnalyzeCalls ==
    {Call("analyze_current_profile", "linkedin", ss[1], ss[2], 0, <<>>) : ss \in SkillSets}

InitAnalyze ==
    /\ host \in AnalyzeHosts
    /\ call \in AnalyzeCalls
    /\ pc = "called"
    /\ result = <<>>
    /\ sent = 0
    /\ CacheIdle
    /\ BuildIdle
    /\ LogIdle

NextAnalyze == AnalyzeCurrentProfile

SpecAnalyze == InitAnalyze /\ [][NextAnalyze]_vars

---------------------------------------------------------------------------
(* Claims about analyze_current_profile. *)

AnalyzeDone == call.op = "analyze_current_profile" /\ pc # "called"

\* the text generate returned holds no "{" followed later by a "}"
NoBraces(text) ==
    ~\E i \in 1..Len(text) : \E j \in (i + 1)..Len(text) :
        text[i] = "{" /\ text[j] = "}"

\* the text from the first "{" to the last "}"
Braced(text) ==
    LET i == MinOf({k \in 1..Len(text) : text[k] = "{"})
        j == CHOOSE m \in 1..Len(text) :
                /\ text[m] = "}"
                /\ \A n \in (m + 1)..Len(text) : text[n] # "}"
    IN  SubSeq(text, i, j)

\* C21: analyze_current_profile for linkedin never propagates an exception
\* caused by the model output; when the response has no brace-delimited
\* substring, or that substring is no valid JSON, it returns the structure
\* whose headline, about and skills_to_add come from generate_title,
\* generate_overview and select_skills (at most 10 skills) and whose
\* experiences list is empty.
C21_AnalyzeNeverRaises ==
    AnalyzeDone =>
        /\ pc = "returned"
        /\ (NoBraces(OllamaGenerate(host))
              \/ JsonLoadsRaises(Braced(OllamaGenerate(host))))
            => /\ result.source = "generators"
               /\ result.headline = LimitTitle("linkedin", CleanTitle(OllamaGenerate(host)))
               /\ result.about = Strip(OllamaGenerate(host))
               /\ result.skills_to_add =
                    SelectSkillsOutcome([call EXCEPT !.max_skills = 10], host).skills
               /\ Len(result.skills_to_add) <= 10
               /\ result.experiences = <<>>

\* C21 witness: the answer held braces around text that is no JSON, and the
\* synthesized structure came back with skills taken from the answer.
C21_Witness ==
    /\ AnalyzeDone
    /\ pc = "returned"
    /\ host.kind = "ok"
    /\ ~NoBraces(host.text)
    /\ JsonLoadsRaises(Braced(host.text))
    /\ result.source = "generators"
    /\ result.skills_to_add # <<>>
    /\ result.skills_to_add # DefaultSkills

---------------------------------------------------------------------------
(* Further claims about the cache. *)

\* the last extract() call rendered the page and built a fresh result
FreshExtracted == lastCall.called /\ lastCall.source = "fresh"

\* C22: every extract() call that performs a fresh extraction stamps the
\* result with a new last_updated and writes it to the URL's cache file,
\* replacing any prior entry, also when use_cache=false; the cache file then
\* holds the result of the most recent fresh extraction for that URL.
C22_FreshIsStampedAndSaved ==
    FreshExtracted =>
        /\ lastCall.data[1].last_updated = IsoFormat(lastCall.at)
        /\ files[CacheFile(lastCall.url)].exists
        /\ files[CacheFile(lastCall.url)].text = JsonDump(lastCall.data[1])
        /\ files[CacheFile(lastCall.url)].mtime = lastCall.at

\* a cache file a write left unfinished, and one that holds an empty object;
\* a file that cannot be read is loaded like the first
TruncatedFile == [exists |-> TRUE, mtime |-> 0, text |-> <<"{", "name">>, origin |-> <<>>]

EmptyObjectFile == [exists |-> TRUE, mtime |-> 0, text |-> <<"{", "}">>, origin |-> <<>>]

\* extract() on a disk whose cache files may be unusable
InitStale ==
    /\ now = 0
    /\ files \in [CacheFiles -> {NoFile, TruncatedFile, EmptyObjectFile}]
    /\ written = [f \in CacheFiles |-> None]
    /\ lastCall = NoCall
    /\ GenIdle
    /\ BuildIdle
    /\ LogIdle

NextStale == ExtractCall \/ Tick

SpecStale == InitStale /\ [][NextStale]_vars

\* the last extract() call had caching on and found, within the duration
\* window, a cache file that gives no data: its text is no JSON, or it is an
\* empty object; the page could be rendered
UnusableCacheInWindow ==
    /\ lastCall.called
    /\ lastCall.use_cache
    /\ lastCall.before.exists
    /\ lastCall.age < lastCall.duration
    /\ JsonLoad(lastCall.before.text).kind # "value"
    /\ lastCall.page.ok

\* C30: with use_cache=true, a cache file within the duration window that
\* cannot be read or parsed, or deserializes to an empty value, does not
\* make extract() fail: the cache is skipped, a fresh extraction runs and
\* the cache file is overwritten with the fresh result.
C30_UnusableCacheSkipped ==
    UnusableCacheInWindow =>
        /\ lastCall.source = "fresh"
        /\ lastCall.fetched
        /\ lastCall.data = Some(PortfolioData(lastCall.page, lastCall.at))
        /\ files[CacheFile(lastCall.url)].text = JsonDump(lastCall.data[1])

---------------------------------------------------------------------------
(* /build_linkedin_profile on a healthy model host, with every way the site
   takes the suggestions. *)

LinkedinUpdateCall ==
    /\ \E req \in LinkedinRequests : BuildLinkedinProfile(req, FieldOutcomes)
    /\ UNCHANGED <<genVars, cacheVars>>

InitLinkedin == GenIdle /\ CacheIdle /\ BuildIdle /\ LogIdle

NextLinkedin == LinkedinUpdateCall

SpecLinkedin == InitLinkedin /\ [][NextLinkedin]_vars

\* the last request was answered by build_linkedin_profile after a browser
\* session in which nothing raised: update_linkedin_profile ran and returned
UpdateReturned ==
    /\ httpReq.endpoint = "/build_linkedin_profile"
    /\ httpResp.code = 200
    /\ httpResp.browser
    /\ ~httpResp.browser_raised

\* the key of the change record that stands for a profile field
ChangeKey(field) == IF field = "skills" THEN "skills_added" ELSE field

\* C26: update_linkedin_profile attempts headline, about and skills in that
\* order, goes on to the later fields after an earlier one fails, and
\* returns a change record that has a headline, about or skills_added entry
\* only for a field whose remote write succeeded; the build result is then
\* labelled 'profile_updated'.
C26_ChangesOnlyForWrittenFields ==
    UpdateReturned =>
        /\ httpResp.status = "profile_updated"
        /\ httpResp.attempted \in
              { <<>>, <<"headline">>, <<"about">>, <<"skills">>,
                <<"headline", "about">>, <<"headline", "skills">>,
                <<"about", "skills">>, <<"headline", "about", "skills">> }
        /\ \A field \in {"headline", "about", "skills"} :
              httpResp.changes[ChangeKey(field)] # None
                  => field \in httpResp.remote

\* C27: build_linkedin_profile appends a record to the linkedin log exactly
\* when an actual remote write occurred: a record is logged whenever at
\* least one field was written to the remote profile, and none is logged
\* when no field was written.
C27_LoggedExactlyWhenWritten ==
    [][(httpReq'.endpoint = "/build_linkedin_profile" /\ httpResp'.code = 200)
          => ((logFiles'["linkedin"] # logFiles["linkedin"])
                <=> (httpResp'.remote # {}))]_<<httpReq, httpResp, apiLog, modelHost, logFiles, logCall>>

---------------------------------------------------------------------------
(* Further claims about the Update Logger. *)

\* C24: the per-platform log file is append-only under non-overlapping
\* calls: when the file holds a JSON array (or does not exist), a successful
\* log_profile_update leaves every earlier entry unchanged and in the same
\* position and adds exactly one entry at the end, and nothing else changes
\* the file; so n successful calls on a platform starting from no file leave
\* exactly n entries in call order.
C24_AppendOnly ==
    [][\A p \in LogPlatforms :
          logFiles[p].kind \in {"array", "none"} =>
            /\ \/ logFiles'[p] = logFiles[p]
               \/ /\ logCall'.op = "log"
                  /\ logCall'.ok
                  /\ logCall'.platform = Some(p)
                  /\ logFiles'[p].kind = "array"
                  /\ logFiles'[p].entries =
                       Append(logFiles[p].entries,
                              StampChanges(p, logCall'.profile_url, logCall'.changes,
                                           logCall'.at))
            /\ (logCall'.op = "log" /\ logCall'.ok /\ logCall'.platform = Some(p)
                  /\ logCall' # logCall)
                 => Len(logFiles'[p].entries) = Len(logFiles[p].entries) + 1]_<<logFiles, logCall>>

\* C24 witness: a second successful call found the array with the first
\* call's entry and left it in front of its own, different, entry.
C24_Witness ==
    /\ logCall.op = "log"
    /\ logCall.ok
    /\ logCall.before.kind = "array"
    /\ Len(logCall.before.entries) = 1
    /\ LoggedFile.entries = Append(logCall.before.entries, NewEntry)
    /\ LoggedFile.entries[1] # LoggedFile.entries[2]

\* C28: after any sequence of log_profile_update calls starting from an
\* empty log directory, every entry stored in the file of platform P has its
\* platform field equal to P, so get_recent_logs(P, limit) returns only
\* entries whose platform is P.
C28_EntriesCarryTheirPlatform ==
    /\ \A p \in LogPlatforms :
          \A i \in 1..Len(logFiles[p].entries) :
             logFiles[p].entries[i].platform = Some(p)
    /\ (logCall.op = "recent" /\ logCall.platform # None)
          => \A i \in 1..Len(logCall.entries) :
                logCall.entries[i].platform = logCall.platform

\* C28 witness: both platforms' files hold an entry, and get_recent_logs for
\* upwork with room for two returned the entry of upwork alone.
C28_Witness ==
    /\ logCall.op = "recent"
    /\ logCall.platform = Some("upwork")
    /\ logCall.limit = 2
    /\ Len(logFiles["linkedin"].entries) = 1
    /\ Len(logFiles["upwork"].entries) = 1
    /\ logFiles["upwork"].entries[1].profile_url = Some("new-url")
    /\ logCall.entries = logFiles["upwork"].entries

---------------------------------------------------------------------------
(* Further claims about POST /extract. *)

\* the experience extraction raised: no selector found an item and the
\* scroll that follows raised
ExperienceRaised(page) ==
    page.ok /\ page.jobs_sel = <<>> /\ ~page.scroll_ok

\* C23: when the extraction of one field raises, extract() still returns,
\* that field holds its hardcoded default, the same value the field gets
\* when no selector strategy matches, and the other fields are unaffected.
C23_RaisedFieldGetsItsDefault ==
    (lastCall.called /\ lastCall.fetched /\ ExperienceRaised(lastCall.page))
        => /\ lastCall.source = "fresh"
           /\ lastCall.data[1].experience = DefaultJobs
           /\ lastCall.data[1].name = ExtractName(lastCall.page)

\* C29: the success message of /extract is 'Cached data retrieved' only when
\* the data was loaded from the cache file, and 'Fresh data extracted'
\* whenever a fresh extraction ran.
C29_MessageTellsTheSource ==
    (httpReq.endpoint = "/extract" /\ httpResp.code = 200)
        => /\ httpResp.message = "Cached data retrieved"
                => lastCall.source = "cache"
           /\ lastCall.source = "fresh"
                => httpResp.message = "Fresh data extracted"

---------------------------------------------------------------------------
(* Update Logger: log_profile_update calls that overlap. Nothing in the
   logger locks the file, so the read of one call and its write are separate
   steps between which another call may read or write. *)

\* the calls that have loaded the file of platform and not yet written it
Reading(platform) ==
    {w \in LogWriters : writers[w].pc = "read" /\ writers[w].platform = platform}

\* the first half of a call: changes is stamped and the file's entries are
\* loaded into the call's own list; the thread's earlier call is no longer
\* beside anyone's
LogRead(w, platform, profile_url, changes) ==
    LET start == StartingEntries(logFiles[platform])
    IN  /\ writers[w].pc # "read"
        /\ writers' =
              [u \in LogWriters |->
                 IF u = w
                 THEN [pc |-> "read", platform |-> platform,
                       entry |-> StampChanges(platform, profile_url, changes, now),
                       saw |-> start.entries, raised |-> start.raised,
                       ok |-> FALSE, beside |-> {}]
                 ELSE [writers[u] EXCEPT !.beside = @ \ {w}]]
        /\ UNCHANGED <<logFiles, logCall>>

\* a call that loads the file again at the moment it writes
EntriesToWriteReread(w) ==
    Append(StartingEntries(logFiles[writers[w].platform]).entries, writers[w].entry)

\* entries.append(changes), on the list the call loaded
EntriesToWrite(w) == Append(writers[w].saw, writers[w].entry)

\* the second half of a call: the call's list, with its entry appended,
\* replaces the file's content, and the call returns True; it returns False
\* when the append or the write raised. beside keeps the calls that had
\* loaded the same file and not yet written it at that moment.
LogWrite(w, write_ok) ==
    LET p == writers[w].platform
        done == ~writers[w].raised /\ write_ok
    IN  /\ writers[w].pc = "read"
        /\ logFiles' = IF done
                       THEN [logFiles EXCEPT ![p] =
                                [exists |-> TRUE, kind |-> "array",
                                 entries |-> EntriesToWrite(w)]]
                       ELSE logFiles
        /\ writers' = [writers EXCEPT ![w] =
                          [@ EXCEPT !.pc = "returned", !.ok = done,
                                    !.beside = Reading(p) \ {w}]]
        /\ UNCHANGED logCall

LogReadCall ==
    /\ LoggedEntries + Cardinality({w \in LogWriters : writers[w].pc = "read"}) < MaxLog
    /\ \E w \in LogWriters, platform \in LogPlatforms, changes \in ChangeRecords :
          LogRead(w, platform, "new-url", changes)
    /\ UNCHANGED <<genVars, cacheVars, buildVars>>

LogWriteCall ==
    /\ \E w \in LogWriters, write_ok \in BOOLEAN : LogWrite(w, write_ok)
    /\ UNCHANGED <<genVars, cacheVars, buildVars>>

InitOverlap == InitLog

\* the calls overlap within one minute of the clock
NextOverlap == LogReadCall \/ LogWriteCall

SpecOverlap == InitOverlap /\ [][NextOverlap]_vars

\* both calls returned True, and first wrote while second had loaded the
\* file and not yet written it: both read before either wrote
BothReturnedTrue(first, second) ==
    /\ first # second
    /\ writers[first].pc = "returned" /\ writers[first].ok
    /\ writers[second].pc = "returned" /\ writers[second].ok
    /\ second \in writers[first].beside

\* C25: two overlapping log_profile_update calls on one platform, both of
\* which read the file before either writes, can both return True while the
\* file holds only one of the two new entries: the file is what the later
\* writer loaded plus its own entry, and the earlier writer's entry is lost.
C25_OverlapLosesAnEntry ==
    \A first, second \in LogWriters :
        BothReturnedTrue(first, second)
            => LET file == logFiles[writers[first].platform]
               IN  /\ writers[second].platform = writers[first].platform
                   /\ file.entries =
                         Append(writers[second].saw, writers[second].entry)
                   /\ Len(file.entries) = Len(writers[second].saw) + 1

\* C25 witness: from a missing log file, two calls with different change
\* records both loaded no entries, both wrote and returned True, and the
\* file holds one entry, that of the later writer.
C25_Witness ==
    \E first, second \in LogWriters :
        /\ BothReturnedTrue(first, second)
        /\ writers[first].saw = <<>> /\ writers[second].saw = <<>>
        /\ writers[first].entry # writers[second].entry
        /\ logFiles[writers[first].platform].entries = <<writers[second].entry>>

====
